---- MODULE Spec2Model ----
(***************************************************************************)
(* Model of parse_messages.py: main(), the one-shot query path and the     *)
(* polling loop watch_mode(), run against an external writer that appends  *)
(* rows to PrivateMessages and touches / removes the messaging.db-wal      *)
(* companion file.  Every numbered step of the program is one action; the  *)
(* writer, the interrupt signal (Ctrl+C) and run-time exceptions are       *)
(* environment actions that interleave with the program's steps.           *)
(* display_default_message is a pure function, checked on its own under   *)
(* SpecFormat.                                                             *)
(***************************************************************************)
EXTENDS Integers, Sequences, FiniteSets

(* ------------------------------ bounds -------------------------------- *)
\* largest timestamp value a row can carry (timestamps are 1..MaxTs)
MaxTs == 3
\* rows the store can hold when the process starts
MaxInitRows == 1
\* rows the store can hold at all (the writer stops appending there)
MaxRows == 3
\* distinct modification times the WAL file can take during the run
MaxMtime == 3
\* poll_count is counted up to this value and then stays there
MaxPolls == 2

(* ------------------------------ values -------------------------------- *)
\* Python's None, as returned by get_wal_modtime for a missing file; real
\* modification times and timestamps are the integers from 1 upwards
None == 0
\* Python's None in the place of a sqlite3.Row
NoneRow == [Id |-> 0, Timestamp |-> None]

Timestamps == 1..MaxTs
Flags == {"none", "message", "id", "time", "debug"}

Min(a, b) == IF a < b THEN a ELSE b

VARIABLES
    \* environment: the table, the WAL file's mtime (None = no file), the
    \* last mtime the filesystem handed out
    store, wal, clock,
    \* command line: args.watch, the output flag, directory checks pass
    watch, flag, dir_ok,
    \* main(): position, connection, its read_only argument, the exit that
    \* is pending while the finally block runs, the process exit status
    pc, conn, read_only, pending, exit_status,
    \* locals of watch_mode and of main's one-shot branch
    latest_message, last_timestamp, last_wal_modtime, poll_count,
    current_wal_modtime, current_message, recent_message,
    \* what was written to stdout: rows shown by display_default_message,
    \* and the other kinds of output
    emitted, out,
    \* a KeyboardInterrupt was delivered
    interrupted,
    \* bookkeeping: store queries issued, what the current tick did, what
    \* the session did
    nqueries, tick, hist

envVars == <<store, wal, clock>>
argVars == <<watch, flag, dir_ok>>
mainVars == <<conn, read_only, pending, exit_status>>
watchVars == <<latest_message, last_timestamp, last_wal_modtime, poll_count,
               current_wal_modtime, current_message>>
outVars == <<emitted, out>>
vars == <<store, wal, clock, watch, flag, dir_ok, pc, conn, read_only, pending,
          exit_status, latest_message, last_timestamp, last_wal_modtime,
          poll_count, current_wal_modtime, current_message, recent_message,
          emitted, out, interrupted, nqueries, tick, hist>>

SeedPcs == {"w_seed_query", "w_seed_check", "w_seed_sample"}
LoopPcs == {"w_sample", "w_compare", "w_query", "w_check", "w_display", "w_sleep"}
OneShotPcs == {"o_query", "o_check", "o_print"}
\* the positions from which the program still reads the table or the WAL
\* file; the writer's later steps cannot be seen by it and are left out
Looking == pc \in {"m_try"} \cup SeedPcs \cup LoopPcs \cup {"o_query"}

(* --------------------------- pure functions --------------------------- *)
\* the rows of the table: Id is the position of the row
Rows(s) == {[Id |-> i, Timestamp |-> s[i]] : i \in 1..Len(s)}

\* (variant: ORDER BY Timestamp ASC)
Fetchone_Oldest(s) ==
    IF Len(s) = 0 THEN {NoneRow}
    ELSE {r \in Rows(s) : \A q \in Rows(s) : r.Timestamp <= q.Timestamp}

\* SELECT * FROM PrivateMessages ORDER BY Timestamp DESC LIMIT 1; fetchone():
\* a row with the largest Timestamp (which one among equals is up to
\* SQLite), None for an empty table
Fetchone(s) ==
    IF Len(s) = 0 THEN {NoneRow}
    ELSE {r \in Rows(s) : \A q \in Rows(s) : q.Timestamp <= r.Timestamp}

\* get_most_recent_message: the row fetched, or, when sqlite3 raises, the
\* error is swallowed by the except clause and the function falls off its
\* end, returning None
get_most_recent_message(s) ==
    {[row |-> r, err |-> FALSE] : r \in Fetchone(s)}
        \cup {[row |-> NoneRow, err |-> TRUE]}

\* get_wal_modtime: os.path.getmtime, or None when the file is missing
get_wal_modtime(w) == w

\* (variant: the result is taken to be a row without looking)
Truthy_Always(r) == TRUE

\* truth value of a query result: a sqlite3.Row has at least one column
Truthy(r) == r # NoneRow

\* (variant: every tick counts as a change)
SentinelChanged_Always(prev, cur) == TRUE

\* (variant: "if current and current != last", which takes None for
\* nothing to compare)
SentinelChanged_Truthy(prev, cur) == cur # None /\ cur # prev

\* line 101: current_wal_modtime != last_wal_modtime
SentinelChanged(prev, cur) == cur # prev

\* (variant: the query is issued for a missing WAL file too)
WalExists_Always(cur) == TRUE

\* line 105: current_wal_modtime is not None
WalExists(cur) == cur # None

\* (variant: every fetched row counts as new)
TimestampChanged_Always(cur, last) == TRUE

\* line 113: current_timestamp != last_timestamp
TimestampChanged(cur, last) == cur # last

\* (variant: the new row is shown but last_timestamp is not updated)
NextLastTimestamp_Stale(row, last) == last

\* (variant: a tick whose query gave no row forgets the recorded timestamp)
NextLastTimestamp_Clear(row, last) ==
    IF Truthy(row) THEN row.Timestamp ELSE None

\* lines 109-114: the value of last_timestamp after the tick's comparison
NextLastTimestamp(row, last) ==
    IF Truthy(row) /\ TimestampChanged(row.Timestamp, last)
      THEN row.Timestamp ELSE last

BlankTick == [decided |-> FALSE, prev |-> None, cur |-> None, changed |-> FALSE,
              queries |-> 0, qerr |-> FALSE, qrow |-> NoneRow, qlen |-> 0,
              prev_ts |-> None, emits |-> 0, samples |-> 0]

(* -------------------------------- Init -------------------------------- *)
InitStores == UNION {[1..n -> Timestamps] : n \in 0..MaxInitRows}

Init ==
    /\ store \in InitStores
    /\ wal \in {None, 1}
    /\ clock = 1
    /\ watch \in BOOLEAN
    /\ flag \in Flags
    /\ dir_ok \in BOOLEAN
    /\ pc = "m_validate"
    /\ conn = "none"
    /\ read_only = FALSE
    /\ pending = 0
    /\ exit_status = 0
    /\ latest_message = NoneRow
    /\ last_timestamp = None
    /\ last_wal_modtime = None
    /\ poll_count = 0
    /\ current_wal_modtime = None
    /\ current_message = NoneRow
    /\ recent_message = NoneRow
    /\ emitted = <<>>
    /\ out = {}
    /\ interrupted = FALSE
    /\ nqueries = 0
    /\ tick = BlankTick
    /\ hist = [seed |-> "none", seed_len |-> 0, sampled |-> FALSE,
               all_absent |-> TRUE, fp |-> 0, loop_entered |-> FALSE,
               int_q |-> 0, int_e |-> 0, oneshot |-> "none",
               raised |-> FALSE]

\* watch_mode is left (by return or by an exception passing through it):
\* its locals are gone, and the tick that was under way is over
WatchFrameDropped ==
    /\ latest_message' = NoneRow
    /\ last_timestamp' = None
    /\ last_wal_modtime' = None
    /\ poll_count' = 0
    /\ current_wal_modtime' = None
    /\ current_message' = NoneRow
    /\ tick' = BlankTick

(* ------------------------------- main() ------------------------------- *)
\* lines 142-157: the directory checks (exit 1) and the rule that --watch
\* goes with no other flag (parser.error exits with status 2)
MValidate ==
    /\ pc = "m_validate"
    /\ IF ~dir_ok
         THEN pc' = "done" /\ exit_status' = 1
         ELSE IF watch /\ flag # "none"
                THEN pc' = "done" /\ exit_status' = 2
                ELSE pc' = "m_connect" /\ UNCHANGED exit_status
    /\ UNCHANGED <<envVars, argVars, conn, read_only, pending, watchVars,
                   recent_message, outVars, interrupted, nqueries, tick, hist>>

\* line 163: the read_only argument main passes to connect_to_database:
\* False in either mode
ReadOnlyArg(w) == FALSE

\* lines 160-165: connect_to_database(db_path, read_only=False); a failed
\* connect prints the error, returns None and main exits with status 1
MConnect ==
    /\ pc = "m_connect"
    /\ \E ok \in BOOLEAN :
        IF ok
          THEN /\ conn' = "open"
               /\ read_only' = ReadOnlyArg(watch)
               /\ pc' = "m_try"
               /\ UNCHANGED <<exit_status, out>>
          ELSE /\ out' = out \cup {"connect_error"}
               /\ pc' = "done"
               /\ exit_status' = 1
               /\ UNCHANGED <<conn, read_only>>
    /\ UNCHANGED <<envVars, argVars, pending, watchVars, recent_message,
                   emitted, interrupted, nqueries, tick, hist>>

\* lines 167-170: enter the try block and branch on args.watch
MTry ==
    /\ pc = "m_try"
    /\ pc' = IF watch THEN "w_seed_query" ELSE "o_query"
    /\ UNCHANGED <<envVars, argVars, mainVars, watchVars, recent_message,
                   outVars, interrupted, nqueries, tick, hist>>

\* lines 190-193: except Exception: sys.exit(1) (the message only with -d)
MExcept ==
    /\ pc = "m_except"
    /\ pending' = 1
    /\ out' = IF flag = "debug" THEN out \cup {"error_occurred"} ELSE out
    /\ pc' = "m_finally"
    /\ UNCHANGED <<envVars, argVars, conn, read_only, exit_status, watchVars,
                   recent_message, emitted, interrupted, nqueries, tick, hist>>

\* (variant: conn.close() as the last statement of the try block instead
\* of a finally block, so that an exit in flight skips it)
MFinally_NotGuaranteed ==
    /\ pc = "m_finally"
    /\ conn' = IF pending = 0 THEN "closed" ELSE conn
    /\ exit_status' = pending
    /\ pc' = "done"
    /\ UNCHANGED <<envVars, argVars, read_only, pending, watchVars,
                   recent_message, outVars, interrupted, nqueries, tick, hist>>

\* lines 195-196: finally: conn.close(); then the pending exit happens
MFinally ==
    /\ pc = "m_finally"
    /\ conn' = "closed"
    /\ exit_status' = pending
    /\ pc' = "done"
    /\ UNCHANGED <<envVars, argVars, read_only, pending, watchVars,
                   recent_message, outVars, interrupted, nqueries, tick, hist>>

(* ----------------------------- watch_mode ----------------------------- *)
\* line 80: the seed query, get_most_recent_message(conn, show_details=False)
WSeedQuery ==
    /\ pc = "w_seed_query"
    /\ \E o \in get_most_recent_message(store) :
        /\ latest_message' = o.row
        /\ hist' = [hist EXCEPT !.seed = IF o.err THEN "error"
                                         ELSE IF Len(store) = 0 THEN "empty"
                                         ELSE "row",
                                !.seed_len = Len(store)]
    /\ nqueries' = nqueries + 1
    /\ pc' = "w_seed_check"
    /\ UNCHANGED <<envVars, argVars, mainVars, last_timestamp, last_wal_modtime,
                   poll_count, current_wal_modtime, current_message,
                   recent_message, outVars, interrupted, tick>>

\* lines 81-85: no row: print "No messages found in database" and return to
\* main (which falls through to its finally block); else seed last_timestamp
WSeedCheck ==
    /\ pc = "w_seed_check"
    /\ IF ~Truthy(latest_message)
         THEN /\ out' = out \cup {"no_messages"}
              /\ pending' = 0
              /\ pc' = "m_finally"
              /\ WatchFrameDropped
         ELSE /\ last_timestamp' = latest_message.Timestamp
              /\ pc' = "w_seed_sample"
              /\ UNCHANGED <<out, pending, latest_message, last_wal_modtime,
                             poll_count, current_wal_modtime, current_message,
                             tick>>
    /\ UNCHANGED <<envVars, argVars, conn, read_only, exit_status,
                   recent_message, emitted, interrupted, nqueries, hist>>

\* lines 86-91: seed last_wal_modtime from one sample, enter the try block,
\* poll_count = 0
WSeedSample ==
    /\ pc = "w_seed_sample"
    /\ last_wal_modtime' = get_wal_modtime(wal)
    /\ poll_count' = 0
    /\ hist' = [hist EXCEPT !.sampled = TRUE,
                            !.all_absent = (get_wal_modtime(wal) = None),
                            !.loop_entered = TRUE]
    /\ pc' = "w_sample"
    /\ UNCHANGED <<envVars, argVars, mainVars, latest_message, last_timestamp,
                   current_wal_modtime, current_message, recent_message,
                   outVars, interrupted, nqueries, tick>>

\* lines 92-94: a tick begins: poll_count += 1 and the sentinel is sampled
WSample ==
    /\ pc = "w_sample"
    /\ poll_count' = Min(poll_count + 1, MaxPolls)
    /\ current_wal_modtime' = get_wal_modtime(wal)
    /\ tick' = [BlankTick EXCEPT !.samples = 1,
                                 !.prev = last_wal_modtime,
                                 !.cur = get_wal_modtime(wal),
                                 !.prev_ts = last_timestamp]
    /\ hist' = [hist EXCEPT !.all_absent = (@ /\ get_wal_modtime(wal) = None)]
    /\ pc' = "w_compare"
    /\ UNCHANGED <<envVars, argVars, mainVars, latest_message, last_timestamp,
                   last_wal_modtime, current_message, recent_message, outVars,
                   interrupted, nqueries>>

\* lines 101-105: on a changed sentinel record it, and go on to the query
\* only if the WAL file exists; otherwise straight to the sleep
WCompare ==
    /\ pc = "w_compare"
    /\ IF SentinelChanged(last_wal_modtime, current_wal_modtime)
         THEN /\ last_wal_modtime' = current_wal_modtime
              /\ pc' = IF WalExists(current_wal_modtime) THEN "w_query" ELSE "w_sleep"
              /\ hist' = [hist EXCEPT !.fp = IF WalExists(current_wal_modtime)
                                               THEN @ ELSE 0]
         ELSE /\ pc' = "w_sleep"
              /\ hist' = [hist EXCEPT !.fp = 0]
              /\ UNCHANGED last_wal_modtime
    /\ tick' = [tick EXCEPT !.decided = TRUE,
                            !.changed = SentinelChanged(last_wal_modtime,
                                                        current_wal_modtime)]
    /\ UNCHANGED <<envVars, argVars, mainVars, latest_message, last_timestamp,
                   poll_count, current_wal_modtime, current_message,
                   recent_message, outVars, interrupted, nqueries>>

\* line 107: current_message = get_most_recent_message(conn, show_details=False)
WQuery ==
    /\ pc = "w_query"
    /\ \E o \in get_most_recent_message(store) :
        /\ current_message' = o.row
        /\ tick' = [tick EXCEPT !.queries = @ + 1, !.qerr = o.err,
                                !.qrow = o.row, !.qlen = Len(store)]
    /\ nqueries' = nqueries + 1
    /\ pc' = "w_check"
    /\ UNCHANGED <<envVars, argVars, mainVars, latest_message, last_timestamp,
                   last_wal_modtime, poll_count, current_wal_modtime,
                   recent_message, outVars, interrupted, hist>>

\* lines 109-114: a row whose Timestamp differs from last_timestamp is new:
\* record its Timestamp; anything else goes to the sleep
WCheck ==
    /\ pc = "w_check"
    /\ IF Truthy(current_message)
          /\ TimestampChanged(current_message.Timestamp, last_timestamp)
         THEN /\ pc' = "w_display"
              /\ hist' = [hist EXCEPT !.fp = 0]
         ELSE /\ pc' = "w_sleep"
              /\ hist' = [hist EXCEPT !.fp = IF Truthy(current_message)
                                               THEN Min(@ + 1, 2) ELSE 0]
    /\ last_timestamp' = NextLastTimestamp(current_message, last_timestamp)
    /\ UNCHANGED <<envVars, argVars, mainVars, latest_message, last_wal_modtime,
                   poll_count, current_wal_modtime, current_message,
                   recent_message, outVars, interrupted, nqueries, tick>>

\* line 115: display_default_message(current_message)
WDisplay ==
    /\ pc = "w_display"
    /\ emitted' = Append(emitted, current_message)
    /\ tick' = [tick EXCEPT !.emits = @ + 1]
    /\ pc' = "w_sleep"
    /\ UNCHANGED <<envVars, argVars, mainVars, watchVars, recent_message, out,
                   interrupted, nqueries, hist>>

\* (variant: the sentinel is sampled once before the loop, not in it)
WSleep_NoResample ==
    /\ pc = "w_sleep"
    /\ tick' = BlankTick
    /\ pc' = "w_compare"
    /\ UNCHANGED <<envVars, argVars, mainVars, watchVars, recent_message,
                   outVars, interrupted, nqueries, hist>>

\* line 117: time.sleep(5), then the next tick
WSleep ==
    /\ pc = "w_sleep"
    /\ tick' = BlankTick
    /\ pc' = "w_sample"
    /\ UNCHANGED <<envVars, argVars, mainVars, watchVars, recent_message,
                   outVars, interrupted, nqueries, hist>>

(* ------------------------- one-shot branch of main -------------------- *)
\* line 172: get_most_recent_message(conn, show_details=args.debug); with
\* -d the row's columns, or the query error, are printed by the function
OQuery ==
    /\ pc = "o_query"
    /\ \E o \in get_most_recent_message(store) :
        /\ recent_message' = o.row
        /\ out' = IF flag # "debug" THEN out
                  ELSE IF o.err THEN out \cup {"query_error"}
                  ELSE IF Truthy(o.row) THEN out \cup {"details"}
                  ELSE out
        /\ hist' = [hist EXCEPT !.oneshot = IF o.err THEN "error"
                                            ELSE IF Len(store) = 0 THEN "empty"
                                            ELSE "row"]
    /\ nqueries' = nqueries + 1
    /\ pc' = "o_check"
    /\ UNCHANGED <<envVars, argVars, mainVars, watchVars, emitted, interrupted,
                   tick>>

\* lines 174-177: no row: sys.exit(1) (the message only with -d)
OCheck ==
    /\ pc = "o_check"
    /\ IF ~Truthy(recent_message)
         THEN /\ out' = IF flag = "debug" THEN out \cup {"no_messages"} ELSE out
              /\ pending' = 1
              /\ pc' = "m_finally"
         ELSE /\ pc' = "o_print"
              /\ UNCHANGED <<out, pending>>
    /\ UNCHANGED <<envVars, argVars, conn, read_only, exit_status, watchVars,
                   recent_message, emitted, interrupted, nqueries, tick, hist>>

\* lines 180-188: one field, or the default line, or (with -d) nothing more
OPrint ==
    /\ pc = "o_print"
    /\ IF flag = "none"
         THEN emitted' = Append(emitted, recent_message) /\ UNCHANGED out
         ELSE /\ out' = IF flag = "debug" THEN out ELSE out \cup {flag}
              /\ UNCHANGED emitted
    /\ pending' = 0
    /\ pc' = "m_finally"
    /\ UNCHANGED <<envVars, argVars, conn, read_only, exit_status, watchVars,
                   recent_message, interrupted, nqueries, tick, hist>>

(* ----------------------------- environment ---------------------------- *)
\* Ctrl+C.  Inside the try block of watch_mode (lines 90-117) the
\* KeyboardInterrupt is caught at line 119: "Watch mode stopped." is
\* printed and watch_mode returns None to main.  Anywhere else in main's try
\* block it is no Exception, so line 190 does not catch it: the finally
\* block runs and the interpreter ends the process on the uncaught
\* KeyboardInterrupt (status 130).  One interrupt per run is modelled.
Interrupt ==
    /\ ~interrupted
    /\ pc \in SeedPcs \cup LoopPcs \cup OneShotPcs
    /\ interrupted' = TRUE
    /\ IF pc \in LoopPcs
         THEN out' = out \cup {"stopped"} /\ pending' = 0
         ELSE pending' = 130 /\ UNCHANGED out
    /\ pc' = "m_finally"
    /\ WatchFrameDropped
    /\ hist' = [hist EXCEPT !.int_q = nqueries, !.int_e = Len(emitted),
                            !.fp = 0]
    /\ UNCHANGED <<envVars, argVars, conn, read_only, exit_status,
                   recent_message, emitted, nqueries>>

\* an Exception raised where a fetched row is read or printed (a missing
\* column, a failing print): caught at line 190
RaiseException ==
    /\ \/ pc = "w_seed_check" /\ Truthy(latest_message)
       \/ pc = "w_check" /\ Truthy(current_message)
       \/ pc = "w_display"
       \/ pc = "o_print"
    /\ pc' = "m_except"
    /\ WatchFrameDropped
    /\ hist' = [hist EXCEPT !.fp = 0, !.raised = TRUE]
    /\ UNCHANGED <<envVars, argVars, mainVars, recent_message, outVars,
                   interrupted, nqueries>>

\* the external writer appends a row; the write goes through the WAL file,
\* whose modification time moves on
WriterAppend ==
    /\ Looking
    /\ Len(store) < MaxRows
    /\ clock < MaxMtime
    /\ \E t \in Timestamps : store' = Append(store, t)
    /\ clock' = clock + 1
    /\ wal' = clock + 1
    /\ UNCHANGED <<argVars, pc, mainVars, watchVars, recent_message, outVars,
                   interrupted, nqueries, tick, hist>>

\* the WAL file is written without a new row in PrivateMessages (a write to
\* another table), which also creates it when it is missing
WalTouch ==
    /\ Looking
    /\ clock < MaxMtime
    /\ clock' = clock + 1
    /\ wal' = clock + 1
    /\ UNCHANGED <<store, argVars, pc, mainVars, watchVars, recent_message,
                   outVars, interrupted, nqueries, tick, hist>>

\* the WAL file is removed (the writer closed its connection)
WalRemove ==
    /\ Looking
    /\ wal # None
    /\ wal' = None
    /\ UNCHANGED <<store, clock, argVars, pc, mainVars, watchVars,
                   recent_message, outVars, interrupted, nqueries, tick, hist>>

Next ==
    \/ MValidate \/ MConnect \/ MTry \/ MExcept \/ MFinally
    \/ WSeedQuery \/ WSeedCheck \/ WSeedSample
    \/ WSample \/ WCompare \/ WQuery \/ WCheck \/ WDisplay \/ WSleep
    \/ OQuery \/ OCheck \/ OPrint
    \/ Interrupt \/ RaiseException
    \/ WriterAppend \/ WalTouch \/ WalRemove

Spec == Init /\ [][Next]_vars

(* ---------------------- display_default_message ----------------------- *)
\* A column value of a fetched row: NULL (Python's None) or a string,
\* written <<>> and <<s>>
NULL == <<>>
Str(s) == <<s>>

TimestampValues == {NULL, Str(""), Str("2024-01-01T00:00:00"),
                    Str("2024-01-02T10:30:00"), Str("0")}
UsernameValues == {NULL, Str(""), Str("alice"), Str("bob"), Str("[x]")}
MessageValues == {NULL, Str(""), Str("hi"), Str("no message"), Str(" ")}

FormatRows == [Timestamp : TimestampValues, Username : UsernameValues,
               Message : MessageValues]

\* Python's truth value of a column value: None and '' are false
Falsy(v) == v = NULL \/ v = Str("")

\* (variant: "placeholder if value is None else value")
Or_NoneOnly(v, placeholder) == IF v = NULL THEN placeholder ELSE v[1]

\* lines 69-71: value or "placeholder"
Or(v, placeholder) == IF Falsy(v) THEN placeholder ELSE v[1]

\* lines 66-72: the line display_default_message prints for a row
display_default_message(message_row) ==
    "[" \o Or(message_row.Timestamp, "unknown time")
        \o "][" \o Or(message_row.Username, "unknown user")
        \o "] " \o Or(message_row.Message, "no message")

\* display_default_message applied to one row: the row is in
\* current_message, the printed line goes to out
InitFormat ==
    /\ current_message \in FormatRows
    /\ pc = "f_display"
    /\ store = <<>> /\ wal = None /\ clock = 1
    /\ watch = FALSE /\ flag = "none" /\ dir_ok = TRUE
    /\ conn = "open" /\ read_only = FALSE /\ pending = 0 /\ exit_status = 0
    /\ latest_message = NoneRow /\ last_timestamp = None
    /\ last_wal_modtime = None /\ poll_count = 0
    /\ current_wal_modtime = None /\ recent_message = NoneRow
    /\ emitted = <<>> /\ out = {} /\ interrupted = FALSE /\ nqueries = 0
    /\ tick = BlankTick
    /\ hist = [seed |-> "none", seed_len |-> 0, sampled |-> FALSE,
               all_absent |-> TRUE, fp |-> 0, loop_entered |-> FALSE,
               int_q |-> 0, int_e |-> 0, oneshot |-> "none",
               raised |-> FALSE]

FDisplay ==
    /\ pc = "f_display"
    /\ out' = {display_default_message(current_message)}
    /\ pc' = "f_done"
    /\ UNCHANGED <<envVars, argVars, mainVars, watchVars, recent_message,
                   emitted, interrupted, nqueries, tick, hist>>

NextFormat == FDisplay

SpecFormat == InitFormat /\ [][NextFormat]_vars

(* ------------------------------- claims ------------------------------- *)
\* the store as it was when the current tick queried it (rows are only
\* ever appended)
StoreAtQuery == SubSeq(store, 1, tick.qlen)

\* how often the row with this Id was shown
TimesEmitted(id) == Cardinality({k \in DOMAIN emitted : emitted[k].Id = id})

\* C1: a tick whose sentinel sample equals the recorded sentinel issues no
\* store query, emits nothing and goes straight to the sleep; and as
\* long as every sample of the session (the seed sample and each tick's)
\* found the WAL file absent, the seed query is the only query and nothing
\* has been emitted.
C1_UnchangedSentinelNoQuery ==
    /\ (tick.decided /\ tick.cur = tick.prev)
          => /\ tick.queries = 0
             /\ tick.emits = 0
             /\ pc = "w_sleep"
    /\ (watch /\ hist.loop_entered /\ hist.all_absent)
          => (nqueries = 1 /\ emitted = <<>>)

\* C1 witness: MaxPolls ticks done with the WAL file absent at every sample
C1_Witness ==
    /\ pc = "w_sleep"
    /\ poll_count = MaxPolls
    /\ hist.all_absent
    /\ tick.decided /\ tick.cur = None /\ tick.prev = None
    /\ nqueries = 1

\* C2: on a tick that queried the store and got a row with the recorded
\* last timestamp, nothing is emitted and last_timestamp stays as it was.
C2_SameTimestampNoEmission ==
    (tick.queries = 1 /\ Truthy(tick.qrow) /\ tick.qrow.Timestamp = tick.prev_ts)
        => /\ tick.emits = 0
           /\ pc # "w_display"
           /\ last_timestamp = tick.prev_ts

\* C2 witness: the second of two consecutive ticks that each saw a changed
\* sentinel and fetched the unchanged timestamp, with nothing emitted so far
C2_Witness ==
    /\ pc = "w_sleep"
    /\ hist.fp = 2
    /\ tick.queries = 1 /\ Truthy(tick.qrow)
    /\ tick.qrow.Timestamp = tick.prev_ts
    /\ emitted = <<>>

\* C3: a tick that saw the sentinel change to a present value and fetched a
\* row whose timestamp differs from the recorded one has, when it reaches
\* its sleep, emitted exactly that row, once, and recorded its timestamp;
\* the row was a latest row of the store when it was fetched.
C3_NewRowEmittedOnce ==
    (/\ pc = "w_sleep"
     /\ tick.changed /\ tick.cur # None
     /\ tick.queries = 1 /\ Truthy(tick.qrow)
     /\ tick.qrow.Timestamp # tick.prev_ts)
        => /\ tick.emits = 1
           /\ Len(emitted) > 0
           /\ emitted[Len(emitted)] = tick.qrow
           /\ last_timestamp = tick.qrow.Timestamp
           /\ tick.qrow \in Rows(StoreAtQuery)
           /\ \A q \in Rows(StoreAtQuery) : q.Timestamp <= tick.qrow.Timestamp

\* C3 witness: the WAL file was absent, appears, and the new row is shown
C3_Witness ==
    /\ pc = "w_sleep"
    /\ tick.changed /\ tick.prev = None /\ tick.cur # None
    /\ tick.queries = 1 /\ Truthy(tick.qrow)
    /\ tick.qrow.Timestamp # tick.prev_ts
    /\ tick.emits = 1
    /\ last_timestamp = tick.qrow.Timestamp

\* C4: a tick that saw the sentinel go from a present value to None records
\* None as the last sentinel, issues no query, emits nothing and reaches its
\* sleep, from where the loop goes on.
C4_DisappearedWalNoQuery ==
    (tick.decided /\ tick.prev # None /\ tick.cur = None)
        => /\ last_wal_modtime = None
           /\ tick.queries = 0
           /\ tick.emits = 0
           /\ pc = "w_sleep"

\* C4 witness: such a tick at its sleep
C4_Witness ==
    /\ pc = "w_sleep"
    /\ tick.decided /\ tick.prev # None /\ tick.cur = None
    /\ last_wal_modtime = None

\* C5: the tick's change decision follows the transition table: None->None
\* and A->A are no change; None->value, value->None and A->B with A # B
\* are a change; and the recorded sentinel is updated exactly on a change.
C5_TransitionTable ==
    tick.decided =>
        /\ (tick.prev = None /\ tick.cur = None) => ~tick.changed
        /\ (tick.prev = None /\ tick.cur # None) => tick.changed
        /\ (tick.prev # None /\ tick.cur = None) => tick.changed
        /\ (tick.prev # None /\ tick.cur # None /\ tick.prev # tick.cur)
              => tick.changed
        /\ (tick.prev # None /\ tick.cur = tick.prev) => ~tick.changed
        /\ last_wal_modtime = IF tick.changed THEN tick.cur ELSE tick.prev

\* C5 witness: a tick that saw the modification time go from A to B
C5_Witness ==
    /\ pc = "w_sleep"
    /\ tick.decided /\ tick.changed
    /\ tick.prev # None /\ tick.cur # None /\ tick.prev # tick.cur

\* C6: when the seed query of watch mode finds the table empty it returns
\* None, the loop is never entered (no sentinel sample, no further query,
\* no emission), and unless an interrupt cuts it short the run reports "no
\* messages found" and ends with status 0.
C6_EmptyStoreShortCircuit ==
    hist.seed = "empty" =>
        /\ latest_message = NoneRow
        /\ ~hist.sampled /\ ~hist.loop_entered
        /\ nqueries = 1
        /\ emitted = <<>>
        /\ pc \in {"w_seed_check", "m_finally", "done"}
        /\ (pc \in {"m_finally", "done"} /\ ~interrupted)
              => ("no_messages" \in out /\ pending = 0)
        /\ (pc = "done" /\ ~interrupted) => exit_status = 0

\* C6 witness: a finished run of watch mode on an empty table
C6_Witness ==
    /\ hist.seed = "empty"
    /\ pc = "done" /\ ~interrupted
    /\ "no_messages" \in out
    /\ exit_status = 0

\* C7 (as claimed): after a query error during a tick the loop does not go
\* on (no sleep, no further sample or query) and the process ends with a
\* non-zero status.
C7_QueryErrorFatal ==
    tick.qerr =>
        /\ pc \notin {"w_sleep", "w_sample", "w_compare", "w_query", "w_display"}
        /\ pc = "done" => exit_status # 0

\* C8 (as claimed): at the sleep of a tick that queried the store
\* successfully, every row appended between the seed query and that query
\* has been emitted exactly once, and every emitted row is such a row.
C8_ExactlyTheNewEntries ==
    (pc = "w_sleep" /\ tick.queries = 1 /\ ~tick.qerr)
        => /\ \A i \in (hist.seed_len + 1)..tick.qlen : TimesEmitted(i) = 1
           /\ \A k \in DOMAIN emitted :
                 /\ emitted[k].Id > hist.seed_len
                 /\ TimesEmitted(emitted[k].Id) = 1

\* C9 (as claimed): after an interrupt at any point of a watch session no
\* further query or emission happens and the process exits with status 0;
\* and a run that entered the loop ends normally only through an interrupt.
C9_InterruptStopsCleanly ==
    /\ (watch /\ interrupted)
          => /\ nqueries = hist.int_q
             /\ Len(emitted) = hist.int_e
             /\ pc = "done" => exit_status = 0
    /\ (hist.loop_entered /\ pc = "done" /\ exit_status = 0) => interrupted

\* C10: no finished run leaves the connection open: once opened, it is
\* closed whichever way the process ends.
C10_ConnectionClosedOnExit ==
    pc = "done" => conn # "open"

\* C10 witness: a watch session that ran its loop and was ended by an
\* interrupt, with the connection closed
C10_Witness ==
    /\ pc = "done"
    /\ watch /\ hist.loop_entered /\ interrupted
    /\ conn = "closed"

\* C11 (as claimed): a finished run has status 1 when it ended on an
\* invalid directory, on no data (the table was empty when queried) or on a
\* run-time error (a failed connect, a failed query, an exception), in
\* either mode; and it has status 0 only after a one-shot query that
\* printed its row or after a watch loop stopped by an interrupt.
C11_ExitStatus ==
    pc = "done" =>
        /\ ~dir_ok => exit_status = 1
        /\ "connect_error" \in out => exit_status = 1
        /\ ((hist.seed = "empty" \/ hist.oneshot = "empty") /\ ~interrupted)
              => exit_status = 1
        /\ ((hist.seed = "error" \/ hist.oneshot = "error" \/ hist.raised)
               /\ ~interrupted)
              => exit_status = 1
        /\ exit_status = 0
              => \/ ~watch /\ hist.oneshot = "row" /\ ~hist.raised /\ ~interrupted
                 \/ watch /\ hist.loop_entered /\ interrupted

\* C12 (as claimed): the query on an empty table hands its caller None
\* without failing, and after a failed query the caller holds something
\* other than that no-data value.
C12_ErrorDistinctFromNoData ==
    /\ (pc = "w_seed_check" /\ hist.seed = "empty") => latest_message = NoneRow
    /\ (pc = "o_check" /\ hist.oneshot = "empty") => recent_message = NoneRow
    /\ (pc = "w_seed_check" /\ hist.seed = "error") => latest_message # NoneRow
    /\ (pc = "o_check" /\ hist.oneshot = "error") => recent_message # NoneRow
    /\ (pc = "w_check" /\ tick.qerr) => current_message # NoneRow

\* C14 (as claimed): an open connection is read-only exactly when the run
\* is not a watch session.
C14_AccessModeByRunMode ==
    conn = "open" => (read_only <=> ~watch)

\* the text the claim gives for a column: the value itself unless it is
\* null, and then the placeholder
ValueOrPlaceholder(v, placeholder) == IF v = NULL THEN placeholder ELSE v[1]

\* C13 (as claimed): the line printed for a row is exactly "[T][S] B", each
\* of T, S, B being the column's value when it is not null and the
\* placeholder when it is; the row (2024-01-01T00:00:00, alice, hi) gives
\* "[2024-01-01T00:00:00][alice] hi".
C13_DefaultFormat ==
    pc = "f_done" =>
        /\ out = {"[" \o ValueOrPlaceholder(current_message.Timestamp, "unknown time")
                    \o "][" \o ValueOrPlaceholder(current_message.Username, "unknown user")
                    \o "] " \o ValueOrPlaceholder(current_message.Message, "no message")}
        /\ current_message = [Timestamp |-> Str("2024-01-01T00:00:00"),
                              Username |-> Str("alice"), Message |-> Str("hi")]
              => out = {"[2024-01-01T00:00:00][alice] hi"}

\* the text the amended claim gives for a column: the placeholder when the
\* value is null or the empty string, the value itself otherwise
NonEmptyOrPlaceholder(v, placeholder) ==
    IF v \in {NULL, Str("")} THEN placeholder ELSE v[1]

\* C13 (amended): the line printed for a row is exactly "[T][S] B", each of
\* T, S, B being the column's value when it is neither null nor empty and
\* the placeholder ("unknown time", "unknown user", "no message") when it
\* is null or empty; the row (2024-01-01T00:00:00, alice, hi) gives
\* "[2024-01-01T00:00:00][alice] hi", and a line is printed for every row.
C13_DefaultFormatAmended ==
    pc = "f_done" =>
        /\ out = {"[" \o NonEmptyOrPlaceholder(current_message.Timestamp, "unknown time")
                    \o "][" \o NonEmptyOrPlaceholder(current_message.Username, "unknown user")
                    \o "] " \o NonEmptyOrPlaceholder(current_message.Message, "no message")}
        /\ current_message = [Timestamp |-> Str("2024-01-01T00:00:00"),
                              Username |-> Str("alice"), Message |-> Str("hi")]
              => out = {"[2024-01-01T00:00:00][alice] hi"}
        /\ (current_message.Username = NULL /\ current_message.Message = NULL)
              => \E t \in TimestampValues \ {NULL, Str("")} :
                     out = {"[" \o t[1] \o "][unknown user] no message"}
                 \/ out = {"[unknown time][unknown user] no message"}

\* C13 witness: a row with a null Username and an empty Message, printed
C13_Witness ==
    /\ pc = "f_done"
    /\ current_message = [Timestamp |-> Str("2024-01-01T00:00:00"),
                          Username |-> NULL, Message |-> Str("")]
    /\ out = {"[2024-01-01T00:00:00][unknown user] no message"}

\* C15 (as claimed): a tick that reaches its sleep without having emitted a
\* message has left both last_timestamp and last_wal_modtime as they were.
C15_WatchStateOnlyOnEmission ==
    (pc = "w_sleep" /\ tick.emits = 0)
        => /\ last_timestamp = tick.prev_ts
           /\ last_wal_modtime = tick.prev

\* C15 (amended): last_timestamp is seeded once from the seed query and is
\* changed only by a tick that emits: a tick that reaches its sleep without
\* an emission has left it as it was; last_wal_modtime is set to the tick's
\* sample by every tick whose sample differs from it, emission or not, and
\* left as it was by every other tick.
C15_WatchStateAmended ==
    /\ (pc = "w_sample" /\ poll_count = 0)
          => last_timestamp = latest_message.Timestamp
    /\ pc \in {"w_compare", "w_query", "w_check"}
          => last_timestamp = tick.prev_ts
    /\ pc = "w_compare" => last_wal_modtime = tick.prev
    /\ (pc = "w_sleep" /\ tick.emits = 0) => last_timestamp = tick.prev_ts
    /\ (pc = "w_sleep" /\ tick.emits = 1)
          => (last_timestamp = tick.qrow.Timestamp
              /\ last_timestamp # tick.prev_ts)
    /\ pc \in {"w_query", "w_check", "w_display", "w_sleep"}
          => last_wal_modtime = IF tick.cur # tick.prev THEN tick.cur
                                ELSE tick.prev

\* C15 witness: a tick at its sleep that emitted nothing, kept
\* last_timestamp and recorded a new sentinel value
C15_Witness ==
    /\ pc = "w_sleep"
    /\ tick.emits = 0
    /\ tick.cur # tick.prev
    /\ last_wal_modtime = tick.cur
    /\ last_timestamp = tick.prev_ts

\* C16: a tick is serial: one sample, then the comparison, then at most
\* one query (only after a change was seen), then at most one emission
\* (only after a query that gave a row), then the sleep; the next tick
\* starts from scratch after the sleep.
C16_TickIsSerial ==
    /\ pc = "w_sample" => tick = BlankTick
    /\ pc = "w_compare"
          => (tick.samples = 1 /\ ~tick.decided /\ tick.queries = 0
              /\ tick.emits = 0)
    /\ pc = "w_query"
          => (tick.samples = 1 /\ tick.decided /\ tick.changed
              /\ tick.queries = 0 /\ tick.emits = 0)
    /\ pc \in {"w_check", "w_display"}
          => (tick.samples = 1 /\ tick.decided /\ tick.queries = 1
              /\ tick.emits = 0)
    /\ pc = "w_display" => Truthy(tick.qrow)
    /\ pc = "w_sleep"
          => /\ tick.samples = 1 /\ tick.decided
             /\ tick.queries \in {0, 1}
             /\ tick.emits \in {0, 1}
             /\ tick.emits = 1 => (tick.queries = 1 /\ Truthy(tick.qrow))

\* C16 witness: the second tick of a session at its sleep, having sampled,
\* queried and emitted once each
C16_Witness ==
    /\ pc = "w_sleep"
    /\ poll_count = 2
    /\ tick.samples = 1 /\ tick.queries = 1 /\ tick.emits = 1

\* the largest Timestamp in the table
MaxTimestamp(s) == CHOOSE t \in {s[i] : i \in 1..Len(s)} :
                       \A i \in 1..Len(s) : s[i] <= t

\* C17 (as claimed): no write is missed for good.  Stated on the states
\* from which only a further write can make the watcher query again: at a
\* tick's sleep, with the WAL file present and its modification time
\* already recorded, the recorded last timestamp is the store's latest.
C17_NoWriteMissed ==
    (pc = "w_sleep" /\ wal # None /\ last_wal_modtime = wal)
        => last_timestamp = MaxTimestamp(store)

\* C18: between ticks the recorded last timestamp is that of the message
\* emitted last, or the seed timestamp when nothing was emitted; no two
\* consecutive emissions carry the same timestamp and the first emission
\* does not carry the seed timestamp.
C18_LastTimestampIsLastEmitted ==
    pc \in LoopPcs =>
        /\ pc \in {"w_sample", "w_sleep"}
              => last_timestamp = IF emitted = <<>>
                                    THEN latest_message.Timestamp
                                    ELSE emitted[Len(emitted)].Timestamp
        /\ \A k \in 1..(Len(emitted) - 1) :
              emitted[k].Timestamp # emitted[k + 1].Timestamp
        /\ emitted # <<>> => emitted[1].Timestamp # latest_message.Timestamp

\* C18 witness: a session at a tick's sleep after two emissions
C18_Witness ==
    /\ pc = "w_sleep"
    /\ Len(emitted) = 2
    /\ last_timestamp = emitted[2].Timestamp

\* C19: with rows only ever appended, the timestamps emitted by a watch
\* session are strictly increasing and each is greater than the seed
\* timestamp.
C19_EmittedStrictlyIncreasing ==
    pc \in LoopPcs =>
        \A k \in DOMAIN emitted :
            /\ emitted[k].Timestamp > latest_message.Timestamp
            /\ k < Len(emitted)
                  => emitted[k].Timestamp < emitted[k + 1].Timestamp

\* C19 witness: two emissions with seed < first < second
C19_Witness ==
    /\ pc \in LoopPcs
    /\ Len(emitted) = 2
    /\ latest_message.Timestamp < emitted[1].Timestamp
    /\ emitted[1].Timestamp < emitted[2].Timestamp

====
